---- MODULE Spec2Model ----
(***************************************************************************)
(* A model of the Chilepay node.js SDK (lib/chilepay-sdk.js): the client   *)
(* object, its public calls, the request each call builds and writes to    *)
(* the HTTPS transport, and the promise each call returns.                 *)
(*                                                                         *)
(* JavaScript strings are TLA+ strings; a character of a string s is       *)
(* SubSeq(s, i, i).  JavaScript values are records [t, v] whose t is the   *)
(* kind of the value and whose v is its content.                           *)
(***************************************************************************)
EXTENDS Integers, Sequences, FiniteSets, TLC

(***************************************************************************)
(* Bounds of the model.                                                    *)
(***************************************************************************)
\* How many times the clock advances in a run.
MaxTicks == 2

(***************************************************************************)
(* Strings.                                                                *)
(***************************************************************************)
CharAt(s, i) == SubSeq(s, i, i)

\* The printable ASCII characters in code order: 32 (space) to 95 (_), and
\* 97 (a) to 126 (~).  Character 96, the backquote, cannot be written in a
\* TLA+ string; no string of the model holds one.
AsciiLow ==
    " !\"#$%&'()*+,-./0123456789:;<=>?@ABCDEFGHIJKLMNOPQRSTUVWXYZ[\\]^_"
AsciiHigh == "abcdefghijklmnopqrstuvwxyz{|}~"

AsciiChars ==
    {CharAt(AsciiLow, i) : i \in 1..Len(AsciiLow)}
        \cup {CharAt(AsciiHigh, i) : i \in 1..Len(AsciiHigh)}

\* The character code of a printable ASCII character.
CharCode ==
    [c \in AsciiChars |->
        IF \E i \in 1..Len(AsciiLow) : CharAt(AsciiLow, i) = c
        THEN 31 + (CHOOSE i \in 1..Len(AsciiLow) : CharAt(AsciiLow, i) = c)
        ELSE 96 + (CHOOSE i \in 1..Len(AsciiHigh) : CharAt(AsciiHigh, i) = c)]

Contains(s, c) == \E i \in 1..Len(s) : CharAt(s, i) = c

\* The index of the first occurrence of character c in s, 0 when there is none.
IndexOf(s, c) ==
    IF Contains(s, c)
    THEN CHOOSE i \in 1..Len(s) :
            /\ CharAt(s, i) = c
            /\ \A j \in 1..(i - 1) : CharAt(s, j) # c
    ELSE 0

\* The two halves of a string of two characters or more.  The operators
\* that rewrite a string character by character recurse on the halves.
LeftHalf(s) == SubSeq(s, 1, Len(s) \div 2)
RightHalf(s) == SubSeq(s, (Len(s) \div 2) + 1, Len(s))

\* String.prototype.replace(/c/g, by) for a one-character pattern c.
RECURSIVE ReplaceAll(_, _, _)
ReplaceAll(s, c, by) ==
    CASE Len(s) = 0 -> ""
      [] Len(s) = 1 -> (IF s = c THEN by ELSE s)
      [] OTHER -> ReplaceAll(LeftHalf(s), c, by) \o ReplaceAll(RightHalf(s), c, by)

\* String.prototype.toUpperCase on the ASCII letters.
Lower == "abcdefghijklmnopqrstuvwxyz"
Upper == "ABCDEFGHIJKLMNOPQRSTUVWXYZ"
UpperChar(c) == IF Contains(Lower, c) THEN CharAt(Upper, IndexOf(Lower, c)) ELSE c
RECURSIVE toUpperCase(_)
toUpperCase(s) ==
    CASE Len(s) = 0 -> ""
      [] Len(s) = 1 -> UpperChar(s)
      [] OTHER -> toUpperCase(LeftHalf(s)) \o toUpperCase(RightHalf(s))

(***************************************************************************)
(* JavaScript values.                                                      *)
(***************************************************************************)
Undefined == [t |-> "undefined", v |-> <<>>]
Null == [t |-> "null", v |-> <<>>]
Str(s) == [t |-> "string", v |-> s]
Num(n) == [t |-> "number", v |-> n]
Bool(b) == [t |-> "boolean", v |-> b]
\* A number with a fraction: sec + ms / 1000 with 0 <= ms < 1000, which is
\* what Date.now() / 1000 yields.
Dec(sec, ms) == [t |-> "decimal", v |-> <<sec, ms>>]
\* An object is the sequence of its own properties <<key, value>>, in
\* insertion order.
Obj(props) == [t |-> "object", v |-> props]
\* An Error object: its class and its message.
Err(class, message) == [t |-> "error", v |-> <<class, message>>]

\* The typeof operator: null and Error objects are 'object'.
typeof(x) ==
    CASE x.t \in {"null", "object", "error"} -> "object"
      [] x.t = "decimal" -> "number"
      [] OTHER -> x.t

\* ToBoolean, as used by !x and x || y.
Truthy(x) ==
    CASE x.t = "undefined" -> FALSE
      [] x.t = "null" -> FALSE
      [] x.t = "string" -> x.v # ""
      [] x.t = "number" -> x.v # 0
      [] x.t = "boolean" -> x.v
      [] x.t = "decimal" -> x.v # <<0, 0>>
      [] OTHER -> TRUE

\* x || y
Or(x, y) == IF Truthy(x) THEN x ELSE y

\* Number.prototype.toString of sec + ms / 1000: the shortest decimal, so
\* no fraction when ms = 0 and no trailing zero otherwise.
DecToString(sec, ms) ==
    IF ms = 0 THEN ToString(sec)
    ELSE ToString(sec) \o "." \o
         (CASE ms % 100 = 0 -> ToString(ms \div 100)
            [] ms % 10 = 0 ->
                 (IF ms < 100 THEN "0" ELSE "") \o ToString(ms \div 10)
            [] OTHER ->
                 (IF ms < 10 THEN "00" ELSE IF ms < 100 THEN "0" ELSE "")
                     \o ToString(ms))

\* String(x) of a primitive, as string concatenation converts it.
ToStr(x) ==
    CASE x.t = "undefined" -> "undefined"
      [] x.t = "null" -> "null"
      [] x.t = "string" -> x.v
      [] x.t = "number" -> ToString(x.v)
      [] x.t = "decimal" -> DecToString(x.v[1], x.v[2])
      [] x.t = "boolean" -> (IF x.v THEN "true" ELSE "false")
      [] OTHER -> "[object Object]"

(***************************************************************************)
(* JSON.stringify and JSON.parse.                                          *)
(***************************************************************************)
\* The quoted form of a string: the double quote and the backslash are
\* escaped with a backslash.
RECURSIVE JSONquoteChars(_)
JSONquoteChars(s) ==
    CASE Len(s) = 0 -> ""
      [] Len(s) = 1 -> (IF s \in {"\"", "\\"} THEN "\\" ELSE "") \o s
      [] OTHER -> JSONquoteChars(LeftHalf(s)) \o JSONquoteChars(RightHalf(s))

JSONquote(s) == "\"" \o JSONquoteChars(s) \o "\""

\* JSON.stringify of a value that is not undefined.  A property whose value
\* is undefined is left out of an object.
RECURSIVE JSONstringify(_)
RECURSIVE JSONmembers(_, _)
JSONmembers(props, first) ==
    IF props = <<>> THEN ""
    ELSE IF Head(props)[2].t = "undefined"
         THEN JSONmembers(Tail(props), first)
         ELSE (IF first THEN "" ELSE ",")
                \o JSONquote(Head(props)[1]) \o ":"
                \o JSONstringify(Head(props)[2])
                \o JSONmembers(Tail(props), FALSE)

JSONstringify(x) ==
    CASE x.t = "string" -> JSONquote(x.v)
      [] x.t = "object" -> "{" \o JSONmembers(x.v, TRUE) \o "}"
      [] x.t = "error" -> "{}"
      [] OTHER -> ToStr(x)

\* JSON.parse, by recursive descent over the text from index i.  A parse
\* yields [ok, v, n]: whether a value was read, the value, and the index
\* after it.  The grammar covered is JSON without white space and without
\* arrays, exponents and escapes in strings: objects, strings, numbers,
\* true, false, null.
ParseFail == [ok |-> FALSE, v |-> Undefined, n |-> 0]
Digits == "0123456789"
IsDigit(c) == Contains(Digits, c)

\* The string literal whose opening quote is before index i: it runs to the
\* next double quote.
ParseString(s, i) ==
    IF \E j \in i..Len(s) : CharAt(s, j) = "\""
    THEN LET j == CHOOSE j \in i..Len(s) :
                    /\ CharAt(s, j) = "\""
                    /\ \A k \in i..(j - 1) : CharAt(s, k) # "\""
         IN IF Contains(SubSeq(s, i, j - 1), "\\") THEN ParseFail
            ELSE [ok |-> TRUE, v |-> Str(SubSeq(s, i, j - 1)), n |-> j + 1]
    ELSE ParseFail

\* The value of a string of digits.
RECURSIVE DigitsValue(_)
DigitsValue(d) ==
    IF Len(d) = 0 THEN 0
    ELSE DigitsValue(SubSeq(d, 1, Len(d) - 1)) * 10
            + (IndexOf(Digits, CharAt(d, Len(d))) - 1)

\* The last index of the run of digits that starts at index i.
DigitsEnd(s, i) ==
    CHOOSE j \in i..Len(s) :
        /\ \A k \in i..j : IsDigit(CharAt(s, k))
        /\ j = Len(s) \/ ~IsDigit(CharAt(s, j + 1))

\* The number whose first digit is at index i: an integer, or an integer
\* and a fraction of one to three digits (thousandths).
ParseDigits(s, i) ==
    LET j == DigitsEnd(s, i)
        whole == DigitsValue(SubSeq(s, i, j))
    IN IF j + 2 <= Len(s) /\ CharAt(s, j + 1) = "." /\ IsDigit(CharAt(s, j + 2))
       THEN LET m == DigitsEnd(s, j + 2)
                f == DigitsValue(SubSeq(s, j + 2, m))
            IN CASE m = j + 2 -> [ok |-> TRUE, v |-> Dec(whole, f * 100), n |-> m + 1]
                 [] m = j + 3 -> [ok |-> TRUE, v |-> Dec(whole, f * 10), n |-> m + 1]
                 [] m = j + 4 -> [ok |-> TRUE, v |-> Dec(whole, f), n |-> m + 1]
                 [] OTHER -> ParseFail
       ELSE [ok |-> TRUE, v |-> Num(whole), n |-> j + 1]

ParseLiteral(s, i, word, value) ==
    IF i + Len(word) - 1 <= Len(s) /\ SubSeq(s, i, i + Len(word) - 1) = word
    THEN [ok |-> TRUE, v |-> value, n |-> i + Len(word)]
    ELSE ParseFail

RECURSIVE ParseValue(_, _)
RECURSIVE ParseMembers(_, _, _)
\* The members of an object after its "{" or after a ",": props are those
\* read so far.
ParseMembers(s, i, props) ==
    IF i > Len(s) \/ CharAt(s, i) # "\"" THEN ParseFail
    ELSE LET k == ParseString(s, i + 1) IN
         IF ~k.ok \/ k.n > Len(s) \/ CharAt(s, k.n) # ":" THEN ParseFail
         ELSE LET x == ParseValue(s, k.n + 1) IN
              IF ~x.ok \/ x.n > Len(s) THEN ParseFail
              ELSE LET all == Append(props, <<k.v.v, x.v>>) IN
                   CASE CharAt(s, x.n) = "}" ->
                            [ok |-> TRUE, v |-> Obj(all), n |-> x.n + 1]
                     [] CharAt(s, x.n) = "," -> ParseMembers(s, x.n + 1, all)
                     [] OTHER -> ParseFail

ParseValue(s, i) ==
    IF i > Len(s) THEN ParseFail
    ELSE LET c == CharAt(s, i) IN
         CASE c = "{" ->
                  IF i + 1 <= Len(s) /\ CharAt(s, i + 1) = "}"
                  THEN [ok |-> TRUE, v |-> Obj(<<>>), n |-> i + 2]
                  ELSE ParseMembers(s, i + 1, <<>>)
           [] c = "\"" -> ParseString(s, i + 1)
           [] IsDigit(c) -> ParseDigits(s, i)
           [] c = "t" -> ParseLiteral(s, i, "true", Bool(TRUE))
           [] c = "f" -> ParseLiteral(s, i, "false", Bool(FALSE))
           [] c = "n" -> ParseLiteral(s, i, "null", Null)
           [] OTHER -> ParseFail

\* JSON.parse(text): [ok, v], ok being FALSE where JSON.parse throws a
\* SyntaxError.
JSONparse(text) ==
    LET r == ParseValue(text, 1) IN
    IF r.ok /\ r.n = Len(text) + 1
    THEN [ok |-> TRUE, v |-> r.v]
    ELSE [ok |-> FALSE, v |-> Err("SyntaxError", "Unexpected token")]

(***************************************************************************)
(* querystring.stringify.                                                  *)
(***************************************************************************)
HexDigits == "0123456789ABCDEF"
Unreserved ==
    "ABCDEFGHIJKLMNOPQRSTUVWXYZabcdefghijklmnopqrstuvwxyz0123456789-_.!~*'()"

\* querystring.escape: every character that is not unreserved becomes %XX.
RECURSIVE qs_escape(_)
qs_escape(s) ==
    CASE Len(s) = 0 -> ""
      [] Len(s) = 1 ->
            IF Contains(Unreserved, s) THEN s
            ELSE "%" \o CharAt(HexDigits, (CharCode[s] \div 16) + 1)
                     \o CharAt(HexDigits, (CharCode[s] % 16) + 1)
      [] OTHER -> qs_escape(LeftHalf(s)) \o qs_escape(RightHalf(s))

\* querystring's stringifyPrimitive: '' for what is no string, number or
\* boolean.
qs_stringifyPrimitive(x) ==
    IF x.t \in {"string", "number", "decimal", "boolean"} THEN ToStr(x) ELSE ""

RECURSIVE qs_pairs(_, _)
qs_pairs(props, first) ==
    IF props = <<>> THEN ""
    ELSE (IF first THEN "" ELSE "&")
            \o qs_escape(Head(props)[1]) \o "="
            \o qs_escape(qs_stringifyPrimitive(Head(props)[2]))
            \o qs_pairs(Tail(props), FALSE)

\* querystring.stringify(obj): '' for what is not an object.
qs_stringify(x) == IF x.t = "object" THEN qs_pairs(x.v, TRUE) ELSE ""

(***************************************************************************)
(* Base64, the keyed digest and the token.                                 *)
(***************************************************************************)
Base64Alphabet ==
    "ABCDEFGHIJKLMNOPQRSTUVWXYZabcdefghijklmnopqrstuvwxyz0123456789+/"
B64(n) == CharAt(Base64Alphabet, n + 1)

\* new Buffer(s): the bytes of an ASCII string.
Bytes(s) == [i \in 1..Len(s) |-> CharCode[CharAt(s, i)]]

\* Buffer.prototype.toString('base64'): three bytes make four characters;
\* a last group of one byte is padded with "==", of two bytes with "=".
Base64Group(b) ==
    CASE Len(b) = 1 ->
            B64(b[1] \div 4) \o B64((b[1] % 4) * 16) \o "=="
      [] Len(b) = 2 ->
            B64(b[1] \div 4) \o B64((b[1] % 4) * 16 + b[2] \div 16)
                \o B64((b[2] % 16) * 4) \o "="
      [] OTHER ->
            B64(b[1] \div 4) \o B64((b[1] % 4) * 16 + b[2] \div 16)
                \o B64((b[2] % 16) * 4 + b[3] \div 64) \o B64(b[3] % 64)

\* The groups lo..hi of three bytes of b, encoded; the last group of b may
\* be short.
RECURSIVE Base64Groups(_, _, _)
Base64Groups(b, lo, hi) ==
    IF lo = hi
    THEN Base64Group(SubSeq(b, 3 * lo - 2,
                            IF 3 * lo <= Len(b) THEN 3 * lo ELSE Len(b)))
    ELSE LET mid == (lo + hi) \div 2 IN
         Base64Groups(b, lo, mid) \o Base64Groups(b, mid + 1, hi)

Base64(b) ==
    IF Len(b) = 0 THEN "" ELSE Base64Groups(b, 1, (Len(b) + 2) \div 3)

\* crypto.createHmac('sha256', key).update(msg).digest(): SHA-256 itself is
\* not modelled.  What is kept of it: the digest is 32 bytes and a function
\* of the key and of the message alone.
RECURSIVE Mix(_, _, _)
Mix(s, lo, hi) ==
    IF lo > hi THEN 0
    ELSE IF lo = hi THEN (CharCode[CharAt(s, lo)] * ((lo % 251) + 1)) % 65521
    ELSE LET mid == (lo + hi) \div 2 IN
         (Mix(s, lo, mid) + Mix(s, mid + 1, hi)) % 65521

createHmac_digest(key, msg) ==
    LET h == (Mix(key, 1, Len(key)) * 257 + Mix(msg, 1, Len(msg))) % 65521 IN
    [i \in 1..32 |-> ((h + i) * (i * i + 7 * i + 3)) % 256]

\* Object.assign(target, source): a key of source replaces the target's
\* value in place when the target has it, and is added at the end otherwise.
RECURSIVE ObjectAssign(_, _)
ObjectAssign(target, source) ==
    IF source = <<>> THEN target
    ELSE LET k == Head(source)[1]
             x == Head(source)[2]
             t == IF \E i \in 1..Len(target) : target[i][1] = k
                  THEN [i \in 1..Len(target) |->
                            IF target[i][1] = k THEN <<k, x>> ELSE target[i]]
                  ELSE Append(target, <<k, x>>)
         IN ObjectAssign(t, Tail(source))

\* _base64UrlEncode with a last replace that strips the first "=" only
\* (replace('=', '') in place of replace(/=/g, '')).
_base64UrlEncode_firstPad(object) ==
    LET s == ReplaceAll(
                ReplaceAll(Base64(Bytes(JSONstringify(object))), "+", "-"),
                "/", "_")
        i == IndexOf(s, "=")
    IN IF i = 0 THEN s ELSE SubSeq(s, 1, i - 1) \o SubSeq(s, i + 1, Len(s))

\* Chilepay._base64UrlEncode(object)
_base64UrlEncode(object) ==
    ReplaceAll(
        ReplaceAll(
            ReplaceAll(Base64(Bytes(JSONstringify(object))), "+", "-"),
            "/", "_"),
        "=", "")

\* The claims with exp counted from the whole second of iat.
jwtClaims_floor(payload, expireIn, now) ==
    Obj(ObjectAssign(payload.v,
            << <<"iat", Dec(now[1], now[2])>>,
               <<"exp", Dec(now[1] + expireIn, 0)>> >>))

\* The claims of _jwtCreate(payload, expireIn, ...) called at time `now`
\* (Date.now() as <<seconds, milliseconds>>): payload with iat and exp.
jwtClaims(payload, expireIn, now) ==
    Obj(ObjectAssign(payload.v,
            << <<"iat", Dec(now[1], now[2])>>,
               <<"exp", Dec(now[1] + expireIn, now[2])>> >>))

\* Chilepay._jwtCreate(payload, expireIn, secretKey), called at time `now`.
_jwtCreate(payload, expireIn, secretKey, now) ==
    LET header == Obj(<< <<"alg", Str("HS256")>>, <<"typ", Str("JWT")>> >>)
        tokenHeader == _base64UrlEncode(header)
        tokenPayload == _base64UrlEncode(jwtClaims(payload, expireIn, now))
        signature ==
            ReplaceAll(
                ReplaceAll(
                    ReplaceAll(
                        Base64(createHmac_digest(secretKey,
                                    tokenHeader \o "." \o tokenPayload)),
                        "+", "-"),
                    "/", "_"),
                "=", "")
    IN tokenHeader \o "." \o tokenPayload \o "." \o signature

(***************************************************************************)
(* class Chilepay.  A method is an operator of the client object `this`,   *)
(* of the method's arguments and, where it reads the clock, of the time    *)
(* `now` of the call.  It yields what the call leaves behind: whether it   *)
(* returned a promise or threw, the promise, and the request it created.   *)
(***************************************************************************)
API_VERSION == "dev"

\* A promise is pending, fulfilled or rejected; resolve and reject act on a
\* pending promise only.
Pending == [state |-> "pending", value |-> Undefined]
Settle(promise, state, value) ==
    IF promise.state = "pending"
    THEN [state |-> state, value |-> value]
    ELSE promise

\* Promise.reject(error)
PromiseReject(error) == [state |-> "rejected", value |-> error]

NoHeaders == [ContentType |-> "", Authorization |-> "", xApiKey |-> ""]
NoReq ==
    [made |-> FALSE, method |-> "", path |-> "", headers |-> NoHeaders,
     body |-> "", ended |-> FALSE]

\* What a call leaves behind: ret tells whether it returned a promise
\* ("promise"), returned another value ("value") or threw ("threw").
Returned(promise, req) ==
    [ret |-> "promise", value |-> Undefined, thrown |-> Undefined,
     promise |-> promise, req |-> req]
Threw(error) ==
    [ret |-> "threw", value |-> Undefined, thrown |-> error,
     promise |-> Pending, req |-> NoReq]

\* The constructor with its test written with && instead of ||.
constructor_and(apiKey, secretKey) ==
    IF ~Truthy(apiKey) /\ ~Truthy(secretKey)
    THEN [status |-> "threw",
          thrown |-> Err("Error", "apiKey and/or secretKey are missing"),
          apiKey |-> Undefined, secretKey |-> Undefined]
    ELSE [status |-> "ok", thrown |-> Undefined,
          apiKey |-> apiKey, secretKey |-> secretKey]

\* new Chilepay(apiKey, secretKey)
constructor(apiKey, secretKey) ==
    IF ~Truthy(apiKey) \/ ~Truthy(secretKey)
    THEN [status |-> "threw",
          thrown |-> Err("Error", "apiKey and/or secretKey are missing"),
          apiKey |-> Undefined, secretKey |-> Undefined]
    ELSE [status |-> "ok", thrown |-> Undefined,
          apiKey |-> apiKey, secretKey |-> secretKey]

\* requestParts with the method compared before it is put in upper case.
requestParts_lowerCase(method, params) ==
    IF method = "get"
    THEN [queryString |-> Str(qs_stringify(params)), body |-> ""]
    ELSE [queryString |-> Undefined, body |-> JSONstringify(params)]

\* The branch of _request on the method: what goes into the query string
\* (undefined when the branch leaves it unset) and what into the body.
requestParts(method, params) ==
    IF method = "GET"
    THEN [queryString |-> Str(qs_stringify(params)), body |-> ""]
    ELSE [queryString |-> Undefined, body |-> JSONstringify(params)]

\* requestToken with the token made once, when the process started, and
\* kept.
requestToken_cached(this, now) ==
    _jwtCreate(Obj(<< <<"type", Str("api")>> >>), 60 * 3, this.secretKey.v,
               <<1700000000, 998>>)

\* The token _request asks of _jwtCreate.
requestToken(this, now) ==
    _jwtCreate(Obj(<< <<"type", Str("api")>> >>), 60 * 3, this.secretKey.v, now)

\* _request(method, url, params): the request is created, its body written
\* and the request ended before the promise is returned.
_request(this, method, url, params, now) ==
    LET METHOD == toUpperCase(method)
        jwt == requestToken(this, now)
        parts == requestParts(METHOD, Or(params, Obj(<<>>)))
        req == [made |-> TRUE,
                method |-> toUpperCase(METHOD),
                path |-> "/" \o API_VERSION \o "/" \o url
                            \o (IF Truthy(parts.queryString)
                                THEN "?" \o parts.queryString.v ELSE ""),
                headers |-> [ContentType |-> "application/json",
                             Authorization |-> "Bearer " \o jwt,
                             xApiKey |-> ToStr(this.apiKey)],
                body |-> parts.body,
                ended |-> TRUE]
    IN Returned(Pending, req)

get(this, url, params, now) == _request(this, "get", url, params, now)
post(this, url, params, now) == _request(this, "post", url, params, now)
put(this, url, params, now) == _request(this, "put", url, params, now)
delete(this, url, params, now) == _request(this, "delete", url, params, now)

getFees(this, plan, now) ==
    get(this, "fees", Obj(<< <<"plan", Or(plan, Str("a"))>> >>), now)

\* initTransaction without the test of the provider.
initTransaction_anyProvider(this, provider, params, now) ==
    IF typeof(params) # "object"
    THEN Returned(PromiseReject(
                    Err("Error", "initTransactionInput object parameter missing")),
                  NoReq)
    ELSE _request(this, "post", "transactions/" \o ToStr(provider), params, now)

initTransaction(this, provider, params, now) ==
    IF typeof(provider) # "string"
    THEN Returned(PromiseReject(Err("Error", "provider is missing")), NoReq)
    ELSE IF typeof(params) # "object"
    THEN Returned(PromiseReject(
                    Err("Error", "initTransactionInput object parameter missing")),
                  NoReq)
    ELSE post(this, "transactions/" \o provider.v, params, now)

getTransaction(this, transactionId, now) ==
    get(this, "transactions/" \o ToStr(transactionId), Undefined, now)

getAccount(this, accountId, now) ==
    get(this, "accounts/" \o ToStr(accountId), Undefined, now)

\* The names the module binds at its top level (the requires, API_VERSION
\* and the class).
ModuleScope == {"crypto", "https", "url", "qs", "API_VERSION", "Chilepay"}

\* initAuth(params): the argument it hands to post is the identifier
\* initAuthInput.  The only local binding is the parameter `params`; an
\* identifier bound neither locally nor by the module is unresolvable, and
\* evaluating it throws a ReferenceError before post is called.
initAuth(this, params, now) ==
    LET locals == [name \in {"params"} |-> params]
        argument == "initAuthInput"
    IN IF argument \in DOMAIN locals
       THEN post(this, "auth", locals[argument], now)
       ELSE Threw(Err("ReferenceError", argument \o " is not defined"))

\* The methods an instance of the class has: those of the class body.  The
\* static _jwtCreate and _base64UrlEncode belong to the class, not to its
\* instances.
InstanceMethods ==
    {"getFees", "initTransaction", "getTransaction", "initAuth", "getAccount",
     "get", "post", "put", "delete"}

\* cp.makeNotificationResponse(transactionOrSeed): the class body defines no
\* member of that name, so the property is undefined and calling it throws
\* a TypeError.
makeNotificationResponse(this, transactionOrSeed) ==
    Threw(Err("TypeError", "cp.makeNotificationResponse is not a function"))

\* Buffer.concat(chunks).toString()
RECURSIVE BufferConcat(_)
BufferConcat(chunks) ==
    IF chunks = <<>> THEN "" ELSE Head(chunks) \o BufferConcat(Tail(chunks))

\* The status test with 300 taken for a success.
settleByStatus_300(promise, statusCode, responseBody) ==
    IF statusCode < 200 \/ statusCode > 300
    THEN Settle(promise, "rejected", responseBody)
    ELSE Settle(promise, "fulfilled", responseBody)

\* The status test of the 'end' handler: reject outside 200..299.
settleByStatus(promise, statusCode, responseBody) ==
    IF statusCode < 200 \/ statusCode > 299
    THEN Settle(promise, "rejected", responseBody)
    ELSE Settle(promise, "fulfilled", responseBody)

\* The 'end' handler of the response: JSON.parse of the chunks received,
\* then the status test.  Where JSON.parse throws, the handler is left by
\* the exception and neither resolve nor reject is called.
onEnd(promise, statusCode, chunks) ==
    LET parsed == JSONparse(BufferConcat(chunks)) IN
    IF parsed.ok
    THEN [threw |-> FALSE,
          promise |-> settleByStatus(promise, statusCode, parsed.v)]
    ELSE [threw |-> TRUE, promise |-> promise]

\* The 'error' handler of the request.
onError(promise, err) == Settle(promise, "rejected", err)

(***************************************************************************)
(* The state.                                                              *)
(***************************************************************************)
VARIABLES
    client,     \* the outcome of new Chilepay(...) and the object's fields
    clock,      \* Date.now(), as <<seconds, milliseconds>>
    process,    \* "running", or "crashed" by an uncaught exception
    calls       \* per call site: its call on the client

vars == <<client, clock, process, calls>>

NoClient ==
    [status |-> "none", thrown |-> Undefined,
     apiKey |-> Undefined, secretKey |-> Undefined,
     given |-> <<Undefined, Undefined>>]

\* The response side of a call's request: the phase of the exchange, the
\* status code received, the chunks the 'data' handler has pushed, the
\* chunks the server has still to send, and whether the 'end' handler was
\* left by an exception.
NoRes ==
    [phase |-> "none", statusCode |-> 0, chunks |-> <<>>, rest |-> <<>>,
     threw |-> FALSE]

Idle ==
    [op |-> "none", args |-> <<>>, at |-> <<0, 0>>, ret |-> "none",
     value |-> Undefined, thrown |-> Undefined, promise |-> Pending,
     req |-> NoReq, res |-> NoRes]

StartClock == <<1700000000, 998>>

\* Milliseconds from StartClock to c.
Elapsed(c) == (c[1] - StartClock[1]) * 1000 + (c[2] - StartClock[2])

(***************************************************************************)
(* The inputs of the calls and the answers of the server.                  *)
(***************************************************************************)
ApiKeys == {Undefined, Str(""), Str("pk_1")}
SecretKeys == {Null, Str(""), Str("sk_1"), Str("sk_2")}

TxParams ==
    Obj(<< <<"subject", Str("Mi pago")>>, <<"amount", Num(10000)>>,
           <<"buyerEmail", Str("comprador@example.com")>> >>)
QueryParams ==
    Obj(<< <<"status", Str("pre approved")>>, <<"limit", Num(10)>> >>)
AuthParams == Obj(<< <<"returnUrl", Str("https://example.com/tienda")>> >>)

Providers ==
    {Num(123), Undefined, Null, Obj(<<>>), Str("webpay"), Str("khipu")}
ParamValues ==
    {Undefined, Null, Str("params"), Num(42), Bool(TRUE), Obj(<<>>), TxParams}
Ids == {Str("T1")}
Plans == {Undefined, Str("b")}
Urls == {"transactions"}
RequestParams == {Undefined, QueryParams}
AuthInputs == {Undefined, AuthParams}
Seeds == {Str("seed1"), Obj(<< <<"seed", Str("seed1")>> >>)}

TxBody == "{\"transactionId\":\"T1\",\"paymentUrl\":\"https://x\"}"
ErrBody == "{\"error\":\"insufficient_funds\"}"
Response(statusCode, chunks) == [statusCode |-> statusCode, chunks |-> chunks]
Responses ==
    {Response(199, <<ErrBody>>),
     Response(200, <<"{\"transactionId\":\"T1\",", "\"paymentUrl\":\"https://x\"}">>),
     Response(201, <<TxBody>>),
     Response(299, <<"{}">>),
     Response(300, <<ErrBody>>),
     Response(402, <<"{\"error\":", "\"insufficient_funds\"}">>),
     Response(200, <<"{\"transactionId\":">>),
     Response(204, <<>>),
     Response(502, <<"<html>Bad Gateway</html>">>)}
TransportErrors == {Err("Error", "ECONNRESET")}

(***************************************************************************)
(* The actions.                                                            *)
(***************************************************************************)
Init ==
    /\ client = NoClient
    /\ clock = StartClock
    /\ process = "running"
    /\ calls = [s \in {"a"} |-> Idle]

\* let cp = new Chilepay(apiKey, secretKey)
Construct(apiKey, secretKey) ==
    /\ process = "running"
    /\ client.status = "none"
    /\ LET made == constructor(apiKey, secretKey) IN
       client' = [status |-> made.status, thrown |-> made.thrown,
                  apiKey |-> made.apiKey, secretKey |-> made.secretKey,
                  given |-> <<apiKey, secretKey>>]
    /\ UNCHANGED <<clock, process, calls>>

\* Time passes: one millisecond.
Tick ==
    /\ process = "running"
    /\ Elapsed(clock) < MaxTicks
    /\ clock' = IF clock[2] = 999 THEN <<clock[1] + 1, 0>>
                ELSE <<clock[1], clock[2] + 1>>
    /\ UNCHANGED <<client, process, calls>>

\* Each call site makes one call on the constructed client.
CanCall(s) ==
    /\ process = "running"
    /\ client.status = "ok"
    /\ calls[s].op = "none"

\* The call site s calls method op with args; result is what the method
\* leaves behind.
Invoke(s, op, args, result) ==
    /\ CanCall(s)
    /\ calls' = [calls EXCEPT ![s] =
                    [op |-> op, args |-> args, at |-> clock,
                     ret |-> result.ret, value |-> result.value,
                     thrown |-> result.thrown,
                     promise |-> result.promise, req |-> result.req,
                     res |-> IF result.req.made
                             THEN [NoRes EXCEPT !.phase = "waiting"]
                             ELSE NoRes]]
    /\ UNCHANGED <<client, clock, process>>

CallInitTransaction(s, provider, params) ==
    Invoke(s, "initTransaction", <<provider, params>>,
           initTransaction(client, provider, params, clock))

CallGetTransaction(s, transactionId) ==
    Invoke(s, "getTransaction", <<transactionId>>,
           getTransaction(client, transactionId, clock))

CallGetAccount(s, accountId) ==
    Invoke(s, "getAccount", <<accountId>>, getAccount(client, accountId, clock))

CallGetFees(s, plan) ==
    Invoke(s, "getFees", <<plan>>, getFees(client, plan, clock))

CallInitAuth(s, params) ==
    Invoke(s, "initAuth", <<params>>, initAuth(client, params, clock))

CallGet(s, url, params) ==
    Invoke(s, "get", <<Str(url), params>>, get(client, url, params, clock))

CallPost(s, url, params) ==
    Invoke(s, "post", <<Str(url), params>>, post(client, url, params, clock))

CallPut(s, url, params) ==
    Invoke(s, "put", <<Str(url), params>>, put(client, url, params, clock))

CallDelete(s, url, params) ==
    Invoke(s, "delete", <<Str(url), params>>, delete(client, url, params, clock))

CallMakeNotificationResponse(s, transactionOrSeed) ==
    Invoke(s, "makeNotificationResponse", <<transactionOrSeed>>,
           makeNotificationResponse(client, transactionOrSeed))

\* The transport calls the response callback: the server answers with the
\* status code and will send the chunks of r.
ResponseEvent(s, r) ==
    /\ process = "running"
    /\ calls[s].res.phase = "waiting"
    /\ calls' = [calls EXCEPT ![s].res =
                    [phase |-> "receiving", statusCode |-> r.statusCode,
                     chunks |-> <<>>, rest |-> r.chunks, threw |-> FALSE]]
    /\ UNCHANGED <<client, clock, process>>

\* res 'data': the handler pushes the chunk.
DataEvent(s) ==
    /\ process = "running"
    /\ calls[s].res.phase = "receiving"
    /\ calls[s].res.rest # <<>>
    /\ calls' = [calls EXCEPT
                    ![s].res.chunks = Append(@, Head(calls[s].res.rest)),
                    ![s].res.rest = Tail(@)]
    /\ UNCHANGED <<client, clock, process>>

\* res 'end'.  An exception that leaves the handler is uncaught: it ends the
\* process unless the application has installed an uncaughtException
\* handler, so both outcomes are possible.
EndEvent(s) ==
    /\ process = "running"
    /\ calls[s].res.phase = "receiving"
    /\ calls[s].res.rest = <<>>
    /\ LET after == onEnd(calls[s].promise, calls[s].res.statusCode,
                          calls[s].res.chunks)
       IN /\ calls' = [calls EXCEPT ![s].promise = after.promise,
                                    ![s].res.phase = "ended",
                                    ![s].res.threw = after.threw]
          /\ process' \in (IF after.threw THEN {"running", "crashed"}
                           ELSE {"running"})
    /\ UNCHANGED <<client, clock>>

\* req 'error': before the response, during it, or after its end.
ErrorEvent(s, err) ==
    /\ process = "running"
    /\ calls[s].res.phase \in {"waiting", "receiving", "ended"}
    /\ calls' = [calls EXCEPT
                    ![s].promise = onError(@, err),
                    ![s].res.phase = IF @ = "ended" THEN "closed" ELSE "failed"]
    /\ UNCHANGED <<client, clock, process>>

Next ==
    \/ \E apiKey \in ApiKeys, secretKey \in SecretKeys :
            Construct(apiKey, secretKey)
    \/ Tick
    \/ \E s \in DOMAIN calls, provider \in Providers, params \in ParamValues :
            CallInitTransaction(s, provider, params)
    \/ \E s \in DOMAIN calls, id \in Ids : CallGetTransaction(s, id)
    \/ \E s \in DOMAIN calls, id \in Ids : CallGetAccount(s, id)
    \/ \E s \in DOMAIN calls, plan \in Plans : CallGetFees(s, plan)
    \/ \E s \in DOMAIN calls, params \in AuthInputs : CallInitAuth(s, params)
    \/ \E s \in DOMAIN calls, url \in Urls, params \in RequestParams :
            CallGet(s, url, params)
    \/ \E s \in DOMAIN calls, url \in Urls, params \in RequestParams :
            CallPost(s, url, params)
    \/ \E s \in DOMAIN calls, url \in Urls, params \in RequestParams :
            CallPut(s, url, params)
    \/ \E s \in DOMAIN calls, url \in Urls, params \in RequestParams :
            CallDelete(s, url, params)
    \/ \E s \in DOMAIN calls, seed \in Seeds :
            CallMakeNotificationResponse(s, seed)
    \/ \E s \in DOMAIN calls, r \in Responses : ResponseEvent(s, r)
    \/ \E s \in DOMAIN calls : DataEvent(s)
    \/ \E s \in DOMAIN calls : EndEvent(s)
    \/ \E s \in DOMAIN calls, err \in TransportErrors : ErrorEvent(s, err)

Spec == Init /\ [][Next]_vars

(***************************************************************************)
(* Two call sites that call the one client concurrently: each site's call  *)
(* and the events of its request interleave freely with the other's.       *)
(***************************************************************************)
InitConcurrent ==
    /\ client = NoClient
    /\ clock = StartClock
    /\ process = "running"
    /\ calls = [s \in {"a", "b"} |-> Idle]

NextConcurrent ==
    \/ \E secretKey \in {Str("sk_1"), Str("sk_2")} :
            Construct(Str("pk_1"), secretKey)
    \/ Tick
    \/ \E s \in DOMAIN calls : CallInitTransaction(s, Str("webpay"), TxParams)
    \/ \E s \in DOMAIN calls : CallGetFees(s, Undefined)
    \/ \E s \in DOMAIN calls : CallPut(s, "transactions", QueryParams)
    \/ \E s \in DOMAIN calls,
          r \in {Response(201, <<TxBody>>),
                 Response(502, <<"<html>Bad Gateway</html>">>)} :
            ResponseEvent(s, r)
    \/ \E s \in DOMAIN calls : DataEvent(s)
    \/ \E s \in DOMAIN calls : EndEvent(s)
    \/ \E s \in DOMAIN calls, err \in TransportErrors : ErrorEvent(s, err)

Concurrent == InitConcurrent /\ [][NextConcurrent]_vars

(***************************************************************************)
(* The static Chilepay._jwtCreate called on its own, with claims payloads  *)
(* and keys of the caller's choice.  It reads no client; the call site     *)
(* keeps the string it returns.                                            *)
(***************************************************************************)
\* Claims payloads: their JSON texts, once iat and exp are added, have
\* lengths of every remainder modulo 3, and hold characters whose base64
\* has "+" and "/".
JwtPayloads ==
    {Obj(<<>>),
     Obj(<< <<"type", Str("api")>> >>),
     Obj(<< <<"sub", Str("a")>> >>),
     Obj(<< <<"sub", Str("ab")>> >>),
     Obj(<< <<"sub", Str("abc")>> >>),
     Obj(<< <<"q", Str("??>>~~")>>, <<"n", Num(700)>> >>),
     Obj(<< <<"iat", Num(1)>>, <<"url", Str("https://x/?a=>b")>> >>)}
JwtExpireIns == {60, 180}
JwtSecretKeys == {"", "sk_1", "sk_2"}

InitJwt ==
    /\ client = NoClient
    /\ clock = StartClock
    /\ process = "running"
    /\ calls = [s \in {"a"} |-> Idle]

\* Chilepay._jwtCreate(payload, expireIn, secretKey)
CallJwtCreate(s, payload, expireIn, secretKey) ==
    /\ process = "running"
    /\ calls[s].op = "none"
    /\ calls' = [calls EXCEPT ![s] =
                    [Idle EXCEPT
                        !.op = "_jwtCreate",
                        !.args = <<payload, Num(expireIn), Str(secretKey)>>,
                        !.at = clock,
                        !.ret = "value",
                        !.value = Str(_jwtCreate(payload, expireIn, secretKey,
                                                 clock))]]
    /\ UNCHANGED <<client, clock, process>>

NextJwt ==
    \/ Tick
    \/ \E s \in DOMAIN calls, payload \in JwtPayloads,
          expireIn \in JwtExpireIns, secretKey \in JwtSecretKeys :
            CallJwtCreate(s, payload, expireIn, secretKey)

Jwt == InitJwt /\ [][NextJwt]_vars

(***************************************************************************)
(* The properties.                                                         *)
(***************************************************************************)
Sites == DOMAIN calls

\* The window of a token, in seconds.
TokenWindow == 180

\* A credential that is present and not empty.
NonEmpty(x) == x.t = "string" /\ x.v # ""

\* The call of site s has created a request.
Requested(s) == calls[s].req.made

\* The part of a request path after its first "?", "" when it has none.
QueryOf(path) ==
    IF Contains(path, "?")
    THEN SubSeq(path, IndexOf(path, "?") + 1, Len(path))
    ELSE ""

\* C1: new Chilepay(apiKey, secretKey) succeeds when both credentials are
\* non-empty and the client then holds exactly the two values given; it
\* throws when either is absent or empty; and the step that constructs
\* the client creates no request.
C1_Construction ==
    /\ [](client.status # "none" =>
            IF NonEmpty(client.given[1]) /\ NonEmpty(client.given[2])
            THEN /\ client.status = "ok"
                 /\ client.apiKey = client.given[1]
                 /\ client.secretKey = client.given[2]
            ELSE /\ client.status = "threw"
                 /\ client.thrown.t = "error")
    /\ [](client.status # "ok" => \A s \in Sites : ~Requested(s))
    /\ [][client.status = "none" /\ client'.status # "none" => calls' = calls]_vars

C1_Witness ==
    /\ client.status = "ok"
    /\ client.given = <<Str("pk_1"), Str("sk_2")>>
    /\ client.apiKey = Str("pk_1")
    /\ client.secretKey = Str("sk_2")

C3_NonObjectParamsRejected ==
    \A s \in Sites :
        (/\ calls[s].op = "initTransaction"
         /\ calls[s].args[1].t = "string"
         /\ calls[s].args[2].t \in {"undefined", "null", "string", "number",
                                    "boolean"}) =>
            /\ calls[s].ret = "promise"
            /\ calls[s].promise.state = "rejected"
            /\ ~Requested(s)

\* C4: once the response has ended and its body is a JSON text, the status
\* code alone decides: 200..299 fulfils the promise with the parsed body,
\* any other status rejects it with the parsed body.
ResponseComplete(s) == calls[s].res.phase \in {"ended", "closed"}
BodyOf(s) == BufferConcat(calls[s].res.chunks)

C4_StatusDecides ==
    \A s \in Sites :
        (ResponseComplete(s) /\ JSONparse(BodyOf(s)).ok) =>
            /\ calls[s].promise.value = JSONparse(BodyOf(s)).v
            /\ calls[s].promise.state =
                    IF calls[s].res.statusCode \in 200..299
                    THEN "fulfilled" ELSE "rejected"
            /\ (calls[s].res.statusCode = 201 /\ BodyOf(s) = TxBody) =>
                    calls[s].promise.value =
                        Obj(<< <<"transactionId", Str("T1")>>,
                               <<"paymentUrl", Str("https://x")>> >>)
            /\ (calls[s].res.statusCode = 402 /\ BodyOf(s) = ErrBody) =>
                    calls[s].promise.value =
                        Obj(<< <<"error", Str("insufficient_funds")>> >>)

C4_Witness ==
    \E s \in Sites :
        /\ calls[s].res.phase = "ended"
        /\ calls[s].res.statusCode = 402
        /\ Len(calls[s].res.chunks) = 2
        /\ calls[s].promise =
                [state |-> "rejected",
                 value |-> Obj(<< <<"error", Str("insufficient_funds")>> >>)]

\* The parameters the caller of a request passed: the params argument of
\* initTransaction, get, post, put and delete, the plan of getFees
\* (defaulted) and none for getTransaction and getAccount.
PassedParams(s) ==
    CASE calls[s].op \in {"initTransaction", "get", "post", "put", "delete"} ->
            calls[s].args[2]
      [] calls[s].op = "getFees" ->
            Obj(<< <<"plan", IF calls[s].args[1].t = "undefined"
                             THEN Str("a") ELSE calls[s].args[1]>> >>)
      [] OTHER -> Undefined
HasParams(s) == PassedParams(s).t = "object" /\ PassedParams(s).v # <<>>
NoParams == Obj(<<>>)

\* C5: a GET request carries the parameters in the query string of its
\* path and an empty body; a POST, PUT or DELETE request carries them as
\* its JSON body and has no query string.  Parameters are never in both
\* places nor in neither.
C5_QueryOrBody ==
    \A s \in Sites :
        Requested(s) =>
            LET params == IF HasParams(s) THEN PassedParams(s) ELSE NoParams
                req == calls[s].req
            IN IF calls[s].op \in {"get", "getTransaction", "getAccount", "getFees"}
               THEN /\ req.method = "GET"
                    /\ req.body = ""
                    /\ QueryOf(req.path) = qs_stringify(params)
                    /\ HasParams(s) => QueryOf(req.path) # ""
               ELSE /\ req.method \in {"POST", "PUT", "DELETE"}
                    /\ req.body = JSONstringify(params)
                    /\ ~Contains(req.path, "?")
                    /\ HasParams(s) => req.body \notin {"", "{}"}

C5_Witness ==
    \E s \in Sites :
        /\ calls[s].op = "get"
        /\ calls[s].args[2] = QueryParams
        /\ calls[s].req.method = "GET"
        /\ calls[s].req.path = "/dev/transactions?status=pre%20approved&limit=10"
        /\ calls[s].req.body = ""

\* C6 (as specified): a call that reached _request has an outcome once its
\* transport has delivered 'end' or 'error': the promise is fulfilled or
\* rejected, a transport error before the end rejects it with that error,
\* and a status outside 200..299 rejects it.
TransportDone(s) == calls[s].res.phase \in {"ended", "failed", "closed"}

C6_OneOutcome ==
    \A s \in Sites :
        (Requested(s) /\ TransportDone(s)) =>
            /\ calls[s].promise.state \in {"fulfilled", "rejected"}
            /\ calls[s].res.phase = "failed" =>
                    /\ calls[s].promise.state = "rejected"
                    /\ calls[s].promise.value \in TransportErrors
            /\ (ResponseComplete(s) /\ calls[s].res.statusCode \notin 200..299) =>
                    calls[s].promise.state = "rejected"

\* C7 (as specified): initAuth(parameters) creates one POST request to the
\* 'auth' path whose JSON body is the parameters passed, and returns the
\* promise of that request.
C7_InitAuthPosts ==
    \A s \in Sites :
        calls[s].op = "initAuth" =>
            /\ calls[s].ret = "promise"
            /\ Requested(s)
            /\ calls[s].req.method = "POST"
            /\ calls[s].req.path = "/dev/auth"
            /\ calls[s].req.body =
                    JSONstringify(IF calls[s].args[1].t = "object"
                                  THEN calls[s].args[1] ELSE NoParams)

\* The value of property k of an object, undefined when it has none.
Prop(obj, k) ==
    IF \E i \in 1..Len(obj.v) : obj.v[i][1] = k
    THEN obj.v[CHOOSE i \in 1..Len(obj.v) : obj.v[i][1] = k][2]
    ELSE Undefined

\* The seed of the argument of makeNotificationResponse: the string itself,
\* or the seed property of the object.
SeedOf(x) == IF x.t = "string" THEN x ELSE Prop(x, "seed")

\* C8 (as specified): makeNotificationResponse returns a signature string
\* without '=', the same for a bare seed and for an object with that seed.
C8_NotificationSignature ==
    \A s \in Sites :
        calls[s].op = "makeNotificationResponse" =>
            /\ calls[s].ret = "value"
            /\ calls[s].value.t = "string"
            /\ ~Contains(calls[s].value.v, "=")
            /\ \A t \in Sites :
                    (/\ calls[t].op = "makeNotificationResponse"
                     /\ SeedOf(calls[t].args[1]) = SeedOf(calls[s].args[1])) =>
                        calls[t].value = calls[s].value

\* The token of a request: its Authorization header without "Bearer ".
TokenOf(s) ==
    SubSeq(calls[s].req.headers.Authorization, Len("Bearer ") + 1,
           Len(calls[s].req.headers.Authorization))

\* The request a call creates when it is the only call made: that of its
\* method on its own arguments, at time `now`.
AloneRequest(call, now) ==
    LET a == call.args IN
    CASE call.op = "initTransaction" ->
            initTransaction(client, a[1], a[2], now).req
      [] call.op = "getTransaction" -> getTransaction(client, a[1], now).req
      [] call.op = "getAccount" -> getAccount(client, a[1], now).req
      [] call.op = "getFees" -> getFees(client, a[1], now).req
      [] call.op = "get" -> get(client, a[1].v, a[2], now).req
      [] call.op = "post" -> post(client, a[1].v, a[2], now).req
      [] call.op = "put" -> put(client, a[1].v, a[2], now).req
      [] call.op = "delete" -> delete(client, a[1].v, a[2], now).req
      [] OTHER -> NoReq

\* C9: every request carries a token made for it when it is created, from
\* a claims object of its own and the time of its call, with the secret key
\* and the api key given at construction, and the path and body it would
\* carry had it run alone; the client is never written after construction;
\* a request once created does not change, and a step of one call leaves
\* the other calls as they are, whatever the interleaving.
C9_NoSharedState ==
    /\ [][\A s \in Sites :
            (~calls[s].req.made /\ calls'[s].req.made) =>
                /\ SubSeq(calls'[s].req.headers.Authorization, Len("Bearer ") + 1,
                          Len(calls'[s].req.headers.Authorization)) =
                        _jwtCreate(Obj(<< <<"type", Str("api")>> >>), TokenWindow,
                                   client.given[2].v, clock)
                /\ calls'[s].req.headers.xApiKey = client.given[1].v
                /\ calls'[s].req.path = AloneRequest(calls'[s], clock).path
                /\ calls'[s].req.body = AloneRequest(calls'[s], clock).body]_vars
    /\ [][client.status = "ok" => client' = client]_vars
    /\ [][\A s \in Sites :
            /\ Requested(s) => calls'[s].req = calls[s].req
            /\ calls'[s] # calls[s] =>
                    \A t \in Sites \ {s} : calls'[t] = calls[t]]_vars

C9_Witness ==
    /\ \A s \in Sites : Requested(s)
    /\ calls["a"].op = calls["b"].op
    /\ calls["a"].args = calls["b"].args
    /\ calls["a"].at # calls["b"].at
    /\ TokenOf("a") # TokenOf("b")
    /\ calls["a"].res.phase = "ended"
    /\ calls["b"].res.phase = "waiting"

(***************************************************************************)
(* Reading a token back.                                                   *)
(***************************************************************************)
Base64UrlAlphabet ==
    "ABCDEFGHIJKLMNOPQRSTUVWXYZabcdefghijklmnopqrstuvwxyz0123456789-_"
B64UrlValue(c) == IndexOf(Base64UrlAlphabet, c) - 1

\* The character of a printable ASCII code.
CharOfCode == [n \in {CharCode[c] : c \in AsciiChars} |->
                    CHOOSE c \in AsciiChars : CharCode[c] = n]

\* The bytes, as characters, of one group of two to four base64url
\* characters.
DecodeGroup(g) ==
    LET a == B64UrlValue(CharAt(g, 1))
        b == B64UrlValue(CharAt(g, 2))
        c == IF Len(g) >= 3 THEN B64UrlValue(CharAt(g, 3)) ELSE 0
        d == IF Len(g) >= 4 THEN B64UrlValue(CharAt(g, 4)) ELSE 0
    IN CharOfCode[a * 4 + b \div 16]
        \o (IF Len(g) >= 3 THEN CharOfCode[(b % 16) * 16 + c \div 4] ELSE "")
        \o (IF Len(g) >= 4 THEN CharOfCode[(c % 4) * 64 + d] ELSE "")

RECURSIVE DecodeGroups(_, _, _)
DecodeGroups(s, lo, hi) ==
    IF lo = hi
    THEN DecodeGroup(SubSeq(s, 4 * lo - 3,
                            IF 4 * lo <= Len(s) THEN 4 * lo ELSE Len(s)))
    ELSE LET mid == (lo + hi) \div 2 IN
         DecodeGroups(s, lo, mid) \o DecodeGroups(s, mid + 1, hi)

\* The text a base64url segment without padding encodes.
Base64UrlDecode(s) ==
    IF Len(s) = 0 THEN "" ELSE DecodeGroups(s, 1, (Len(s) + 3) \div 4)

\* The claims of a token: its second segment, decoded and parsed.
PayloadSegment(token) ==
    LET dots == {i \in 1..Len(token) : CharAt(token, i) = "."}
        first == CHOOSE i \in dots : \A j \in dots : i <= j
        last == CHOOSE i \in dots : \A j \in dots : i >= j
    IN SubSeq(token, first + 1, last - 1)
ClaimsOf(token) == JSONparse(Base64UrlDecode(PayloadSegment(token)))

\* A number as <<seconds, milliseconds>>, and a < b for two of them.
Millis(x) == IF x.t = "number" THEN <<x.v, 0>> ELSE x.v
Less(a, b) == a[1] < b[1] \/ (a[1] = b[1] /\ a[2] < b[2])

\* C10: the claims of the token of every request hold iat, the time at
\* which the request was built, exp, which is iat plus exactly 180 seconds
\* and so strictly after iat, and the type marker 'api'.
C10_Expiry ==
    \A s \in Sites :
        Requested(s) =>
            LET claims == ClaimsOf(TokenOf(s)) IN
            /\ claims.ok
            /\ Prop(claims.v, "type") = Str("api")
            /\ Prop(claims.v, "iat").t \in {"number", "decimal"}
            /\ Prop(claims.v, "exp").t \in {"number", "decimal"}
            /\ Millis(Prop(claims.v, "iat")) = calls[s].at
            /\ Millis(Prop(claims.v, "exp")) =
                    <<calls[s].at[1] + TokenWindow, calls[s].at[2]>>
            /\ Less(Millis(Prop(claims.v, "iat")), Millis(Prop(claims.v, "exp")))

C10_Witness ==
    \E s \in Sites :
        /\ Requested(s)
        /\ calls[s].at = <<1700000000, 999>>
        /\ ClaimsOf(TokenOf(s)).v =
                Obj(<< <<"type", Str("api")>>,
                       <<"iat", Dec(1700000000, 999)>>,
                       <<"exp", Dec(1700000180, 999)>> >>)

(***************************************************************************)
(* The shape of a token.                                                   *)
(***************************************************************************)
\* The site s called _jwtCreate directly.
Created(s) == calls[s].op = "_jwtCreate"

\* The positions of "." in a string.
Dots(s) == {i \in 1..Len(s) : CharAt(s, i) = "."}

\* The segments of a string that holds exactly two ".".
Segments(s) ==
    LET first == CHOOSE i \in Dots(s) : \A j \in Dots(s) : i <= j
        last == CHOOSE i \in Dots(s) : \A j \in Dots(s) : i >= j
    IN <<SubSeq(s, 1, first - 1), SubSeq(s, first + 1, last - 1),
         SubSeq(s, last + 1, Len(s))>>

\* A non-empty string of base64url characters: letters, digits, "-" and
\* "_", hence no "+", "/", "." or "=".
IsBase64Url(s) ==
    /\ Len(s) > 0
    /\ \A i \in 1..Len(s) : Contains(Base64UrlAlphabet, CharAt(s, i))

\* The standard base64 text of the claims the call of site s signs.
StandardPayload(s) ==
    Base64(Bytes(JSONstringify(
        jwtClaims(calls[s].args[1], calls[s].args[2].v, calls[s].at))))

\* The number of "=" at the end of a standard base64 text.
Padding(b) ==
    IF Len(b) >= 2 /\ SubSeq(b, Len(b) - 1, Len(b)) = "==" THEN 2
    ELSE IF Len(b) >= 1 /\ CharAt(b, Len(b)) = "=" THEN 1
    ELSE 0

\* C11: for every claims payload and secret key, the token _jwtCreate
\* returns has exactly three segments separated by ".", and every segment
\* is base64url: no "+", "/", "." or "=" is left in it, whatever the
\* padding (0, 1 or 2 characters) of the standard base64 text; a segment
\* is the standard text with its whole padding removed.
C11_TokenShape ==
    \A s \in Sites :
        Created(s) =>
            LET token == calls[s].value.v IN
            /\ calls[s].ret = "value"
            /\ calls[s].value.t = "string"
            /\ Cardinality(Dots(token)) = 2
            /\ \A k \in 1..3 : IsBase64Url(Segments(token)[k])
            /\ Len(Segments(token)[2]) =
                    Len(StandardPayload(s)) - Padding(StandardPayload(s))

\* A token whose payload segment lost two padding characters and whose
\* standard text holds "+" or "/".
C11_Witness ==
    \E s \in Sites :
        /\ Created(s)
        /\ Padding(StandardPayload(s)) = 2
        /\ Contains(StandardPayload(s), "+") \/ Contains(StandardPayload(s), "/")
        /\ IsBase64Url(Segments(calls[s].value.v)[2])

\* Tokens whose payload text has no padding, and one padding character.
C11_WitnessPadding0 == \E s \in Sites : Created(s) /\ Padding(StandardPayload(s)) = 0
C11_WitnessPadding1 == \E s \in Sites : Created(s) /\ Padding(StandardPayload(s)) = 1

====
